---- MODULE Spec2Model ----
(***************************************************************************)
(* Connection lifecycle of the pgx connection manager (connection.go,      *)
(* monitoring.go): NewConnection, Connect with its retry loop, Close and   *)
(* ResetPool, against a pool provider whose create and ping outcomes and   *)
(* durations are chosen nondeterministically; the operations guarded by a  *)
(* nil check of the pool; and the transaction helpers (transaction.go,     *)
(* Connection.WithTransaction), which run under their own specification.   *)
(*                                                                         *)
(* Time is counted in whole seconds.  The clock `now` is read relative to  *)
(* the instant Connect computes its deadline (time.Now() at the start of   *)
(* the retry loop reads 0), since the code only ever compares differences. *)
(***************************************************************************)
EXTENDS Integers, Sequences, FiniteSets, TLC

(***************************************************************************)
(* Bounds of the model                                                     *)
(***************************************************************************)
MaxCalls == 2          \* Connect/ResetPool calls made on one Manager
MaxCallDur == 1        \* longest time one provider call (create, ping) takes
MaxOversleep == 1      \* longest time time.Sleep overshoots the requested delay
LongRetryTimeout == 67 \* a retry timeout long enough for the backoff cap to be slept
MaxCloseRun == 2       \* consecutive Close calls that are told apart
MaxOptions == 3        \* options passed to one NewConnection call
MaxCallers == 3        \* goroutines calling Release on one ConnectionWrapper
MaxReleases == 4       \* Release calls made on one ConnectionWrapper

(***************************************************************************)
(* Program constants                                                       *)
(***************************************************************************)
DefaultHealthTimeout == 5
DefaultRetryTimeout == 30
BackoffUnit == 1
MaxBackoff == 10

(***************************************************************************)
(* Go's int is 64 bits wide; a value v is kept as the pair hi, lo with     *)
(* v = hi * 2^16 + lo and 0 <= lo < 2^16, so that values beyond the signed *)
(* 32-bit range stay representable.                                        *)
(***************************************************************************)
Word == 2^16

I64(h, l) == [hi |-> h, lo |-> l]

MaxInt32 == I64(32767, 65535)

Zero64 == I64(0, 0)

Less64(a, b) == a.hi < b.hi \/ (a.hi = b.hi /\ a.lo < b.lo)

(***************************************************************************)
(* Configuration and construction                                          *)
(***************************************************************************)
MaxConnsChoices == {I64(-1, 65535), I64(0, 10), MaxInt32, I64(32768, 0), I64(65535, 65535)}

MinConnsChoices == {I64(-1, 65535), I64(0, 2), I64(32768, 0)}

\* DatabaseConfig.RetryTimeout: 0 when the caller leaves the field unset
ConfigRetryChoices == {0, 5}

\* the retry timeout is set on the valid configuration with the usual pool
\* sizes
Configs ==
    {c \in [MaxConns : MaxConnsChoices, MinConns : MinConnsChoices,
            urlOK : BOOLEAN, RetryTimeout : ConfigRetryChoices] :
        \/ c.RetryTimeout = 0
        \/ c.urlOK /\ c.MaxConns = I64(0, 10) /\ c.MinConns = I64(0, 2)}

RetryChoices == {0, 5, LongRetryTimeout}

WithRetryTimeout(opts, timeout) == [opts EXCEPT !.retryTimeout = timeout]

\* variant: the health option also overwrites the retry timeout
WithHealthTimeout_Both(opts, timeout) ==
    [healthTimeout |-> timeout, retryTimeout |-> timeout]

WithHealthTimeout(opts, timeout) == [opts EXCEPT !.healthTimeout = timeout]

DefaultOptions ==
    [healthTimeout |-> DefaultHealthTimeout, retryTimeout |-> DefaultRetryTimeout]

\* the options NewConnection can end up with
OptionSets ==
    {DefaultOptions} \cup {WithRetryTimeout(DefaultOptions, d) : d \in RetryChoices}

(***************************************************************************)
(* Pool handles                                                            *)
(***************************************************************************)
NoPool == 0

HandleIds == 1..(MaxCalls + 2)

NoRet ==
    [op |-> "none", kind |-> "none", attempts |-> 0, duration |-> 0,
     cause |-> "nil", elapsed |-> 0]

VARIABLES
    pool,       \* Connection.pool: NoPool (nil) or a handle
    cfg,        \* Connection.cfg
    opts,       \* Connection.opts
    hstate,     \* provider side: each handle is "free", "open" or "closed"
    pc,         \* position of the call in progress: "idle" when none is
    op,         \* the public operation in progress: "Connect" or "ResetPool"
    ctxDone,    \* the caller's context of the call in progress is canceled
    now,        \* the clock
    deadline,   \* Connect's local deadline
    attempt,    \* Connect's local attempt
    cur,        \* Connect's local pool
    err,        \* Connect's local err
    backoff,    \* Connect's local backoff
    calls,      \* number of Connect/ResetPool calls made so far
    ret,        \* what the last completed call returned
    pinged,     \* history: handles whose post-creation ping succeeded
    created,    \* history: handles created by the current (or last) Connect
    lastFail,   \* history: error of the last failed attempt of this Connect
    touched,    \* history: the handle the last operation invoked the Provider on
    closeRun    \* history: number of Close calls made in a row

\* the transaction helpers
VARIABLES
    helper,     \* the helper in progress (or the last one run)
    tpc,        \* its position: "idle" when none is in progress
    tx,         \* its transaction handle: "nil" or "tx"
    fnErr,      \* what work returned, or the originalErr argument
    rbErr,      \* history: what Rollback returned
    cmErr,      \* history: what Commit returned
    txlog,      \* history: operations invoked on the handle, and work, in order
    logs,       \* history: levels of the events sent to the logger
    tret        \* what the helper returned

\* the health and monitoring operations
VARIABLES
    hop,        \* the operation in progress (or the last one run)
    hpc,        \* its position: "idle" when none is in progress
    hret,       \* what it returned
    probe,      \* history: the last liveness query and what it gave
    stats,      \* what pool.Stat() reported to the last operation
    wnow,       \* WaitForReady: the clock, counted from the start of the call
    wdeadline,  \* WaitForReady's local deadline
    nextTick,   \* the time the ticker fires next
    tickReady,  \* a tick lies in the ticker's channel
    wctx,       \* the caller's context of WaitForReady is canceled
    polls,      \* history: number of Health calls WaitForReady has issued
    pollAt,     \* history: when the last of them was issued
    gap,        \* history: the smallest time between two of them in a row
    stale       \* history: the last of them was issued after the cancellation

hvars ==
    <<hop, hpc, hret, probe, stats, wnow, wdeadline, nextTick, tickReady, wctx,
      polls, pollAt, gap, stale>>

txvars == <<helper, tpc, tx, fnErr, rbErr, cmErr, txlog, logs, tret>>

connvars ==
    <<pool, cfg, opts, hstate, pc, op, ctxDone, now, deadline, attempt, cur,
      err, backoff, calls, ret, pinged, created, lastFail, touched, closeRun>>

VARIABLES
    nargs,      \* the arguments of the last NewConnection call
    conn,       \* the *Connection it returned, NoManager for nil
    nerr,       \* the error it returned
    sink        \* the diagnostic events each logger has received

nvars == <<nargs, conn, nerr, sink>>

VARIABLES
    origin,     \* how the ConnectionWrapper came to be: Acquire or WithConnection
    wconn,      \* ConnectionWrapper.conn is not nil
    closed,     \* ConnectionWrapper.closed
    mu,         \* ConnectionWrapper.mu: 0 when free, else the caller holding it
    rpc,        \* position of each caller inside Release
    rcalls,     \* Release calls started on the wrapper
    released,   \* history: times the pooled connection went back to the pool
    wpc,        \* position of WithConnection
    fnCalls,    \* history: times WithConnection invoked fn
    wret        \* what WithConnection returned

rvars ==
    <<origin, wconn, closed, mu, rpc, rcalls, released, wpc, fnCalls, wret>>

vars ==
    <<pool, cfg, opts, hstate, pc, op, ctxDone, now, deadline, attempt, cur,
      err, backoff, calls, ret, pinged, created, lastFail, touched, closeRun,
      helper, tpc, tx, fnErr, rbErr, cmErr, txlog, logs, tret,
      hop, hpc, hret, probe, stats, wnow, wdeadline, nextTick, tickReady, wctx,
      polls, pollAt, gap, stale,
      nargs, conn, nerr, sink,
      origin, wconn, closed, mu, rpc, rcalls, released, wpc, fnCalls, wret>>

(***************************************************************************)
(* Provider bookkeeping                                                    *)
(***************************************************************************)
\* a closed handle that neither the Manager nor a local refers to is garbage
Collect(hs, p, c) ==
    [h \in HandleIds |->
        IF hs[h] = "closed" /\ h # p /\ h # c THEN "free" ELSE hs[h]]

FreshHandle(hs) == CHOOSE h \in HandleIds : hs[h] = "free" /\ \A g \in HandleIds : hs[g] = "free" => h <= g

\* pgxpool.Pool.Close on handle p
PoolClose(hs, p) == [hs EXCEPT ![p] = "closed"]

OpenHandles == {h \in HandleIds : hstate[h] = "open"}

(***************************************************************************)
(* Connect: validation (connection.go, Connect, before the retry loop)     *)
(***************************************************************************)
\* variant: the upper range checks are missing
BoundsOK_NoUpper(c) ==
    /\ ~Less64(c.MaxConns, Zero64)
    /\ ~Less64(c.MinConns, Zero64)

\* the range checks on MaxConns and MinConns
BoundsOK(c) ==
    /\ ~(Less64(c.MaxConns, Zero64) \/ Less64(MaxInt32, c.MaxConns))
    /\ ~(Less64(c.MinConns, Zero64) \/ Less64(MaxInt32, c.MinConns))

\* pgxpool.ParseConfig succeeded and both range checks passed
ConfigValid(c) == c.urlOK /\ BoundsOK(c)

\* variant: the delay doubles with every attempt (1s, 2s, 4s, ...) up to the cap
Backoff_Exponential(n) ==
    LET b == (2 ^ (n - 1)) * BackoffUnit
    IN  IF b > MaxBackoff THEN MaxBackoff ELSE b

\* min(attempt * 1s, 10s) as the loop computes it
Backoff(n) ==
    LET b == n * BackoffUnit
    IN  IF b > MaxBackoff THEN MaxBackoff ELSE b

\* variant: the check against the deadline is missing
CrossesDeadline_Never(t, b, d) == FALSE

\* variant: the loop gives up as soon as the longest backoff would not fit
CrossesDeadline_Early(t, b, d) == t + MaxBackoff > d

\* time.Now().Add(backoff).After(deadline)
CrossesDeadline(t, b, d) == t + b > d

\* time.Now().Before(deadline)
BeforeDeadline(t, d) == t < d

\* what ping returns for a context: a canceled context fails the acquire
PingOutcomes(done) == IF done THEN {FALSE} ELSE BOOLEAN

(***************************************************************************)
(* Returns                                                                 *)
(***************************************************************************)
\* return errors.NewValidationError(...)
ReturnValidation(name) ==
    /\ pc' = "idle"
    /\ ret' = [op |-> name, kind |-> "validation", attempts |-> 0,
               duration |-> 0, cause |-> "nil", elapsed |-> 0]

\* return errors.NewTimeoutError("failed to connect after %d attempts",
\*        "database_connect", retryTimeout, errors.WithCause(err))
ReturnTimeout ==
    /\ pc' = "idle"
    /\ ret' = [op |-> op, kind |-> "timeout", attempts |-> attempt,
               duration |-> opts.retryTimeout, cause |-> err, elapsed |-> now]
    /\ cur' = NoPool
    /\ hstate' = Collect(hstate, pool, NoPool)
    /\ ctxDone' = FALSE
    /\ UNCHANGED <<pool, cfg, opts, op, now, deadline, attempt, err, backoff,
                   calls, pinged, created, lastFail>>

(***************************************************************************)
(* Connect, from its entry to the first evaluation of the loop condition.  *)
(* hs is the provider state the call starts from.                          *)
(***************************************************************************)
ConnectEntry(name, hs, canceled) ==
    /\ calls' = calls + 1
    /\ op' = name
    /\ created' = {}
    /\ lastFail' = "nil"
    /\ attempt' = 0
    /\ cur' = NoPool
    /\ err' = "nil"
    /\ backoff' = 0
    /\ now' = 0
    /\ hstate' = hs
    /\ touched' = NoPool
    /\ closeRun' = 0
    /\ UNCHANGED <<pool, cfg, opts, pinged>>
    /\ UNCHANGED <<txvars, hvars, nvars, rvars>>
    /\ IF ConfigValid(cfg)
       THEN /\ deadline' = 0 + opts.retryTimeout
            /\ pc' = "loop"
            /\ ctxDone' = canceled
            /\ ret' = NoRet
       ELSE /\ deadline' = 0
            /\ ctxDone' = FALSE
            /\ ReturnValidation(name)

ConnectCall ==
    /\ pc = "idle"
    /\ calls < MaxCalls
    /\ \E canceled \in BOOLEAN : ConnectEntry("Connect", hstate, canceled)

\* the locals of a Connect that has returned are gone once the caller goes on
DiscardFrame ==
    /\ op' = "none"
    /\ ctxDone' = FALSE
    /\ now' = 0
    /\ deadline' = 0
    /\ attempt' = 0
    /\ cur' = NoPool
    /\ err' = "nil"
    /\ backoff' = 0
    /\ created' = {}
    /\ lastFail' = "nil"

\* variant: Close calls c.pool.Close() without looking at c.pool
CloseGuard_Missing(p) == TRUE

\* Close: if c.pool != nil
CloseGuard(p) == p # NoPool

\* Close: if c.pool != nil { c.pool.Close() }
CloseEffect(hs, p) == IF CloseGuard(p) /\ p # NoPool THEN PoolClose(hs, p) ELSE hs

\* a method called on a nil *pgxpool.Pool dereferences nil and panics
NilDeref(p) == p = NoPool

CloseCall ==
    /\ pc = "idle"
    /\ hstate' = CloseEffect(hstate, pool)
    /\ ret' = [NoRet EXCEPT !.op = "Close",
                            !.kind = IF CloseGuard(pool) /\ NilDeref(pool)
                                     THEN "panic" ELSE "none"]
    /\ touched' = IF CloseGuard(pool) THEN pool ELSE NoPool
    /\ closeRun' = IF closeRun < MaxCloseRun THEN closeRun + 1 ELSE closeRun
    /\ DiscardFrame
    /\ UNCHANGED <<pool, cfg, opts, pc, calls, pinged>>
    /\ UNCHANGED <<txvars, hvars, nvars, rvars>>

(***************************************************************************)
(* Operations guarded by a nil check of c.pool.  Each returns the "pool    *)
(* not initialized" error (Stats and Pool: nil) when the check finds no    *)
(* pool and otherwise hands the call to the pool it holds.                 *)
(***************************************************************************)
\* variant: the operation does not look at c.pool before using it
PoolIsNil_Unchecked(p) == FALSE

\* if c.pool == nil
PoolIsNil(p) == p = NoPool

\* the result of an operation that returns an error when there is no pool
GuardedResult(name, p) ==
    [NoRet EXCEPT !.op = name,
                  !.kind = IF PoolIsNil(p) THEN "notConnected"
                           ELSE IF NilDeref(p) THEN "panic"
                           ELSE "delegated"]

\* the handle an operation hands its call to
Delegate(p) == IF PoolIsNil(p) THEN NoPool ELSE p

\* variant: Health drops the handle it probed
HeldAfter_HealthResets(name, p) == IF name = "Health" THEN NoPool ELSE p

\* c.pool after a read, query, health or metrics operation: none of them
\* assigns the field
HeldAfter(name, p) == p

GuardedCall(name) ==
    /\ pc = "idle"
    /\ ret' = GuardedResult(name, pool)
    /\ touched' = Delegate(pool)
    /\ pool' = HeldAfter(name, pool)
    /\ closeRun' = 0
    /\ DiscardFrame
    /\ UNCHANGED <<cfg, opts, hstate, pc, calls, pinged>>
    /\ UNCHANGED <<txvars, hvars, nvars, rvars>>

\* an operation that answers a value, not an error, when no pool is held
ValueCall(name, nilKind) ==
    /\ pc = "idle"
    /\ ret' = [NoRet EXCEPT !.op = name,
                            !.kind = IF PoolIsNil(pool) THEN nilKind
                                     ELSE IF NilDeref(pool) THEN "panic"
                                     ELSE "delegated"]
    /\ touched' = Delegate(pool)
    /\ pool' = HeldAfter(name, pool)
    /\ closeRun' = 0
    /\ DiscardFrame
    /\ UNCHANGED <<cfg, opts, hstate, pc, calls, pinged>>
    /\ UNCHANGED <<txvars, hvars, nvars, rvars>>

\* IsHealthy: c.Health(ctx) == nil, false without a pool
IsHealthyCall == ValueCall("IsHealthy", "false")

\* DetailedHealth: an unhealthy status without a pool, statistics and the
\* Health probe otherwise
StatusCall == ValueCall("DetailedHealth", "status")

\* GetMetrics: &PoolMetrics{} without a pool, db.pool.Stat() otherwise
GetMetricsCall == ValueCall("GetMetrics", "empty")

HealthCall == GuardedCall("Health")

ExecCall == GuardedCall("Exec")

QueryCall == GuardedCall("Query")

QueryRowCall == GuardedCall("QueryRow")

BeginCall == GuardedCall("Begin")

BeginTxCall == GuardedCall("BeginTx")

AcquireCall == GuardedCall("Acquire")

CopyFromCall == GuardedCall("CopyFrom")

SendBatchCall == GuardedCall("SendBatch")

MethodWithTransactionCall == GuardedCall("WithTransaction")

CheckConnectionsCall == GuardedCall("CheckConnections")

\* Stats: nil without a pool, c.pool.Stat() otherwise
StatsCall ==
    /\ pc = "idle"
    /\ ret' = [NoRet EXCEPT !.op = "Stats",
                            !.kind = IF PoolIsNil(pool) THEN "nilValue"
                                     ELSE IF NilDeref(pool) THEN "panic"
                                     ELSE "delegated"]
    /\ touched' = Delegate(pool)
    /\ closeRun' = 0
    /\ DiscardFrame
    /\ UNCHANGED <<pool, cfg, opts, hstate, pc, calls, pinged>>
    /\ UNCHANGED <<txvars, hvars, nvars, rvars>>

\* Pool: return c.pool
PoolCall ==
    /\ pc = "idle"
    /\ ret' = [NoRet EXCEPT !.op = "Pool",
                            !.kind = IF pool = NoPool THEN "nilValue" ELSE "handle"]
    /\ touched' = NoPool
    /\ closeRun' = 0
    /\ DiscardFrame
    /\ UNCHANGED <<pool, cfg, opts, hstate, pc, calls, pinged>>
    /\ UNCHANGED <<txvars, hvars, nvars, rvars>>

\* ResetPool: db.Close(); return db.Connect(ctx)
ResetPoolCall ==
    /\ pc = "idle"
    /\ calls < MaxCalls
    /\ \E canceled \in BOOLEAN :
          ConnectEntry("ResetPool", CloseEffect(hstate, pool), canceled)

(***************************************************************************)
(* The retry loop                                                          *)
(***************************************************************************)
\* loop condition true: attempt++ and pgxpool.NewWithConfig
AttemptCreate ==
    /\ pc = "loop"
    /\ BeforeDeadline(now, deadline)
    /\ attempt' = attempt + 1
    /\ \E ok \in BOOLEAN, d \in 0..MaxCallDur :
          /\ now' = now + d
          /\ IF ok
             THEN LET h == FreshHandle(Collect(hstate, pool, NoPool))
                  IN  /\ hstate' = [Collect(hstate, pool, NoPool) EXCEPT ![h] = "open"]
                      /\ cur' = h
                      /\ created' = created \cup {h}
                      /\ pinged' = pinged \ {h}
                      /\ err' = "nil"
                      /\ pc' = "ping"
                      /\ UNCHANGED lastFail
             ELSE /\ hstate' = Collect(hstate, pool, NoPool)
                  /\ cur' = NoPool
                  /\ err' = "createErr"
                  /\ lastFail' = "createErr"
                  /\ pc' = "backoff"
                  /\ UNCHANGED <<created, pinged>>
    /\ UNCHANGED <<pool, cfg, opts, op, ctxDone, deadline, backoff, calls, ret>>
    /\ UNCHANGED <<touched, closeRun>>
    /\ UNCHANGED <<txvars, hvars, nvars, rvars>>

\* loop condition false: fall through to the timeout error
LoopExit ==
    /\ pc = "loop"
    /\ ~BeforeDeadline(now, deadline)
    /\ ReturnTimeout
    /\ UNCHANGED <<touched, closeRun>>
    /\ UNCHANGED <<txvars, hvars, nvars, rvars>>

\* pool.Ping succeeded: c.pool = pool; return nil
PingSuccess ==
    /\ pool' = cur
    /\ pinged' = pinged \cup {cur}
    /\ hstate' = Collect(hstate, cur, NoPool)
    /\ cur' = NoPool
    /\ pc' = "idle"
    /\ ctxDone' = FALSE
    /\ ret' = [op |-> op, kind |-> "nil", attempts |-> attempt, duration |-> 0,
               cause |-> "nil", elapsed |-> now']
    /\ UNCHANGED <<err, lastFail>>

\* variant: the handle is stored before its ping is looked at
PingFailure_Stores ==
    /\ hstate' = PoolClose(hstate, cur)
    /\ err' = "pingErr"
    /\ lastFail' = "pingErr"
    /\ pc' = "backoff"
    /\ pool' = cur
    /\ UNCHANGED <<pinged, cur, ctxDone, ret>>

\* variant: the handle of the failed attempt is not closed
PingFailure_NoClose ==
    /\ hstate' = hstate
    /\ err' = "pingErr"
    /\ lastFail' = "pingErr"
    /\ pc' = "backoff"
    /\ UNCHANGED <<pool, pinged, cur, ctxDone, ret>>

\* variant: the ping error is not assigned to err
PingFailure_KeepsErr ==
    /\ hstate' = PoolClose(hstate, cur)
    /\ err' = err
    /\ lastFail' = "pingErr"
    /\ pc' = "backoff"
    /\ UNCHANGED <<pool, pinged, cur, ctxDone, ret>>

\* pool.Ping failed: pool.Close(); err = pingErr
PingFailure ==
    /\ hstate' = PoolClose(hstate, cur)
    /\ err' = "pingErr"
    /\ lastFail' = "pingErr"
    /\ pc' = "backoff"
    /\ UNCHANGED <<pool, pinged, cur, ctxDone, ret>>

AttemptPing ==
    /\ pc = "ping"
    /\ \E ok \in PingOutcomes(ctxDone), d \in 0..MaxCallDur :
          /\ now' = now + d
          /\ IF ok THEN PingSuccess ELSE PingFailure
    /\ UNCHANGED <<cfg, opts, op, deadline, attempt, backoff, calls, created>>
    /\ UNCHANGED <<touched, closeRun>>
    /\ UNCHANGED <<txvars, hvars, nvars, rvars>>

\* after a failed attempt: compute the backoff, break or go to sleep
BackoffStep ==
    /\ pc = "backoff"
    /\ LET b == Backoff(attempt)
       IN  IF CrossesDeadline(now, b, deadline)
           THEN /\ ReturnTimeout
           ELSE /\ backoff' = b
                /\ pc' = "sleep"
                /\ UNCHANGED <<pool, cfg, opts, hstate, op, ctxDone, now,
                               deadline, attempt, cur, err, calls, ret, pinged,
                               created, lastFail>>
    /\ UNCHANGED <<touched, closeRun>>
    /\ UNCHANGED <<txvars, hvars, nvars, rvars>>

\* time.Sleep(backoff) returns
SleepDone ==
    /\ pc = "sleep"
    /\ \E over \in 0..MaxOversleep : now' = now + backoff + over
    /\ pc' = "loop"
    /\ UNCHANGED <<pool, cfg, opts, hstate, op, ctxDone, deadline, attempt,
                   cur, err, backoff, calls, ret, pinged, created, lastFail>>
    /\ UNCHANGED <<touched, closeRun>>
    /\ UNCHANGED <<txvars, hvars, nvars, rvars>>

\* the caller cancels the context it passed to the call in progress
CancelCtx ==
    /\ pc # "idle"
    /\ ~ctxDone
    /\ ctxDone' = TRUE
    /\ UNCHANGED <<pool, cfg, opts, hstate, pc, op, now, deadline, attempt,
                   cur, err, backoff, calls, ret, pinged, created, lastFail>>
    /\ UNCHANGED <<touched, closeRun>>
    /\ UNCHANGED <<txvars, hvars, nvars, rvars>>

(***************************************************************************)
(* The transaction helpers                                                 *)
(***************************************************************************)
\* error values: the words of Error() and the context error in the chain
Err(m, c) == [msg |-> m, chain |-> c]

NilErr == Err(<<>>, "nil")

Canceled == Err(<<"context", "canceled">>, "canceled")

DeadlineExceeded == Err(<<"context", "deadline", "exceeded">>, "deadline")

PoolNotInitialized == Err(<<"database", "pool", "not", "initialized">>, "none")

\* what tx.Rollback can return
RollbackErrors ==
    {NilErr,
     Err(<<"tx", "is", "closed">>, "none"),
     Err(<<"rollback", "failed", "conn", "busy">>, "none"),
     Canceled,
     Err(<<"rollback", "context", "canceled">>, "canceled"),
     Err(<<"context", "canceled">>, "none"),
     DeadlineExceeded,
     Err(<<"tx", "closed">>, "none"),
     Err(<<"connection", "reset">>, "none")}

\* what work can return
WorkErrors ==
    {NilErr, Err(<<"unique", "violation">>, "none"), Canceled, DeadlineExceeded}

\* what tx.Commit can return
CommitErrors == {NilErr, Err(<<"commit", "failed">>, "none"), Canceled}

\* what pool.Begin can return
BeginErrors == {NilErr, Err(<<"acquire", "failed">>, "none")}

TxIsClosed == <<"tx", "is", "closed">>

ConnBusy == <<"conn", "busy">>

\* strings.Contains, on words
Contains(m, sub) ==
    \E i \in 1..(Len(m) - Len(sub) + 1) : SubSeq(m, i, i + Len(sub) - 1) = sub

\* errors.Is(e, context.Canceled)
IsCanceled(e) == e.chain = "canceled"

\* errors.Is(e, context.DeadlineExceeded)
IsDeadlineExceeded(e) == e.chain = "deadline"

\* what a helper returned: the kind of value, the message it starts with, the
\* wrapped cause, the rollback error it mentions, whether a panic goes on
NoTxRet ==
    [kind |-> "none", what |-> "none", cause |-> NilErr, rollback |-> NilErr,
     panic |-> FALSE, pval |-> "none"]

\* the values work can panic with
PanicValues == {"boom", "bang"}

\* return nil
RetNil == [NoTxRet EXCEPT !.kind = "nil"]

\* return e
RetVerbatim(e) == [NoTxRet EXCEPT !.kind = "verbatim", !.cause = e]

\* return errors.NewProcessingError("failed to <w> transaction", ..., errors.WithCause(e))
RetProcessing(w, e) ==
    [NoTxRet EXCEPT !.kind = "processing", !.what = w, !.cause = e]

\* return errors.NewTimeoutError(..., 0, errors.WithCause(e))
RetTimeout(w, e) == [NoTxRet EXCEPT !.kind = "timeout", !.what = w, !.cause = e]

\* return fmt.Errorf("failed to <w> transaction: %w", e)
RetErrorf(w, e) == [NoTxRet EXCEPT !.kind = "errorf", !.what = w, !.cause = e]

\* no liveness query was issued
NoProbe == [issued |-> FALSE, err |-> FALSE, result |-> 0]

\* pool.Stat() was not called
NoStats == [acquired |-> 0, idle |-> 0, max |-> 0, count |-> 0, duration |-> 0]

NoHRet ==
    [kind |-> "none", value |-> 0, healthy |-> FALSE, message |-> "none",
     conns |-> 0, idle |-> 0, max |-> 0]

\* no gap between two polls was seen yet
NoGap == 0 - 1

\* no health or monitoring operation has been called
HIdle ==
    /\ hop = "none"
    /\ hpc = "idle"
    /\ hret = NoHRet
    /\ probe = NoProbe
    /\ stats = NoStats
    /\ wnow = 0
    /\ wdeadline = 0
    /\ nextTick = 0
    /\ tickReady = FALSE
    /\ wctx = FALSE
    /\ polls = 0
    /\ pollAt = 0
    /\ gap = NoGap
    /\ stale = FALSE

\* the loggers a Manager can write to: slog.Default() and one given by the
\* caller
Loggers == {"default", "custom"}

NoManager ==
    [made |-> FALSE, pool |-> NoPool, cfg |-> "nil", logger |-> "none",
     opts |-> [healthTimeout |-> 0, retryTimeout |-> 0]]

\* NewConnection has not been called
NIdle ==
    /\ nargs = [cfg |-> "nil", opts |-> <<>>]
    /\ conn = NoManager
    /\ nerr = "none"
    /\ sink = [l \in Loggers |-> {}]

\* the goroutines that use the wrapper: 0 runs WithConnection, the others call
\* Release on a wrapper they share
WithCaller == 0

Callers == 1..MaxCallers

Goroutines == {WithCaller} \cup Callers

\* no ConnectionWrapper exists
RIdle ==
    /\ origin = "none"
    /\ wconn = FALSE
    /\ closed = FALSE
    /\ mu = 0
    /\ rpc = [p \in Goroutines |-> "idle"]
    /\ rcalls = 0
    /\ released = 0
    /\ wpc = "idle"
    /\ fnCalls = 0
    /\ wret = "none"

\* no helper has been called
TxIdle ==
    /\ helper = "none"
    /\ tpc = "idle"
    /\ tx = "nil"
    /\ fnErr = NilErr
    /\ rbErr = NilErr
    /\ cmErr = NilErr
    /\ txlog = <<>>
    /\ logs = <<>>
    /\ tret = NoTxRet

\* a WithTransaction helper is entered: its locals and the histories start afresh
TxEnter(name) ==
    /\ tpc = "idle"
    /\ helper' = name
    /\ fnErr' = NilErr
    /\ rbErr' = NilErr
    /\ cmErr' = NilErr

(***************************************************************************)
(* HandleTransactionRollback (transaction.go)                              *)
(***************************************************************************)
\* variant: a deadline-exceeded rollback error counts as expected too
RollbackLevel_DeadlineExpected(e) ==
    IF \/ Contains(e.msg, TxIsClosed)
       \/ IsCanceled(e)
       \/ IsDeadlineExceeded(e)
       \/ Contains(e.msg, ConnBusy)
    THEN "WARN"
    ELSE "ERROR"

\* the level a non-nil rollback error is logged at
RollbackLevel(e) ==
    IF \/ Contains(e.msg, TxIsClosed)
       \/ IsCanceled(e)
       \/ Contains(e.msg, ConnBusy)
    THEN "WARN"
    ELSE "ERROR"

\* variant: the transaction is used without the nil check
TxIsNil_Unchecked(t) == FALSE

\* if tx == nil { return }
TxIsNil(t) == t = "nil"

\* calling Rollback on a nil interface value panics
RollbackPanics(t) == ~TxIsNil(t) /\ t = "nil"

\* the panic of a call on a nil transaction goes on to the caller
RetPanic ==
    [NoTxRet EXCEPT !.kind = "panic", !.panic = TRUE, !.pval = "nil dereference"]

\* HandleTransactionRollback(ctx, t, logger) where Rollback returns rb
HandleTransactionRollback(t, rb) ==
    IF TxIsNil(t)
    THEN UNCHANGED <<txlog, logs, rbErr>>
    ELSE /\ txlog' = Append(txlog, "rollback")
         /\ rbErr' = rb
         /\ logs' = IF rb # NilErr THEN Append(logs, RollbackLevel(rb)) ELSE logs

\* a direct call, as from a caller's own defer block
HandleRollbackCall ==
    /\ tpc = "idle"
    /\ helper' = "handle"
    /\ fnErr' = NilErr
    /\ cmErr' = NilErr
    /\ \E t \in {"nil", "tx"}, rb \in RollbackErrors :
          /\ tx' = t
          /\ txlog' = IF t = "nil" THEN <<>> ELSE <<"rollback">>
          /\ rbErr' = IF t = "nil" THEN NilErr ELSE rb
          /\ logs' = IF t # "nil" /\ rb # NilErr THEN <<RollbackLevel(rb)>> ELSE <<>>
          /\ tret' = IF RollbackPanics(t) THEN RetPanic ELSE NoTxRet
    /\ UNCHANGED tpc
    /\ UNCHANGED <<connvars, hvars, nvars, rvars>>

(***************************************************************************)
(* RollbackTransaction (transaction.go)                                    *)
(***************************************************************************)
\* variant: the original error is not attached as the cause
RollbackTransactionResult_NoCause(e) ==
    IF e = NilErr THEN RetNil
    ELSE IF IsCanceled(e) THEN RetProcessing("canceled", NilErr)
    ELSE IF IsDeadlineExceeded(e) THEN RetTimeout("deadline", NilErr)
    ELSE RetProcessing("failed", NilErr)

\* the re-wrapping of originalErr
RollbackTransactionResult(e) ==
    IF e = NilErr THEN RetNil
    ELSE IF IsCanceled(e) THEN RetProcessing("canceled", e)
    ELSE IF IsDeadlineExceeded(e) THEN RetTimeout("deadline", e)
    ELSE RetProcessing("failed", e)

RollbackTransactionCall ==
    /\ tpc = "idle"
    /\ helper' = "rollbackTx"
    /\ cmErr' = NilErr
    /\ \E t \in {"nil", "tx"}, rb \in RollbackErrors, e \in WorkErrors :
          /\ tx' = t
          /\ fnErr' = e
          /\ txlog' = IF t = "nil" THEN <<>> ELSE <<"rollback">>
          /\ rbErr' = IF t = "nil" THEN NilErr ELSE rb
          /\ logs' = IF t # "nil" /\ rb # NilErr THEN <<RollbackLevel(rb)>> ELSE <<>>
          /\ tret' = IF RollbackPanics(t) THEN RetPanic
                     ELSE RollbackTransactionResult(e)
    /\ UNCHANGED tpc
    /\ UNCHANGED <<connvars, hvars, nvars, rvars>>

(***************************************************************************)
(* WithTransaction, the package-level helper (transaction.go)              *)
(***************************************************************************)
\* variant: the error of Begin is not looked at
BeginFailed_Ignored(e) == FALSE

\* if err != nil after Begin
BeginFailed(e) == e # NilErr

\* conn.Begin(ctx): the nil check of Connection.Begin, then pool.Begin
ConnBeginOutcomes == IF PoolIsNil(pool) THEN {PoolNotInitialized} ELSE BeginErrors

PkgBegin ==
    /\ TxEnter("pkg")
    /\ \E e \in ConnBeginOutcomes :
          /\ txlog' = IF PoolIsNil(pool) THEN <<>> ELSE <<"begin">>
          /\ tx' = IF e = NilErr THEN "tx" ELSE "nil"
          /\ IF BeginFailed(e)
             THEN tret' = RetProcessing("begin", e) /\ tpc' = "idle"
             ELSE tret' = NoTxRet /\ tpc' = "work"
    /\ logs' = <<>>
    /\ UNCHANGED <<connvars, hvars, nvars, rvars>>

\* variant: the work's error comes back wrapped, as RollbackTransaction wraps
WorkFailure_Wrapped(e) == RetProcessing("failed", e)

\* return fnErr
WorkFailure(e) == RetVerbatim(e)

\* fnErr = fn(tx): work returns nil, returns an error, or panics
PkgWork ==
    /\ helper = "pkg"
    /\ tpc = "work"
    /\ txlog' = Append(txlog, "work")
    /\ \/ /\ fnErr' = NilErr
          /\ tpc' = "commit"
          /\ UNCHANGED tret
       \/ \E e \in WorkErrors \ {NilErr} :
             /\ fnErr' = e
             /\ tret' = WorkFailure(e)
             /\ tpc' = "deferred"
       \/ /\ \E p \in PanicValues :
                tret' = [NoTxRet EXCEPT !.kind = "panic", !.panic = TRUE, !.pval = p]
          /\ tpc' = "deferred"
          /\ UNCHANGED fnErr
    /\ UNCHANGED <<helper, tx, rbErr, cmErr, logs>>
    /\ UNCHANGED <<connvars, hvars, nvars, rvars>>

\* variant: the commit error is not attached as the cause
PkgCommitResult_NoCause(e) ==
    IF e # NilErr THEN RetProcessing("commit", NilErr) ELSE RetNil

\* if err := tx.Commit(ctx); err != nil { return NewProcessingError } return nil
PkgCommitResult(e) ==
    IF e # NilErr THEN RetProcessing("commit", e) ELSE RetNil

PkgCommit ==
    /\ helper = "pkg"
    /\ tpc = "commit"
    /\ txlog' = Append(txlog, "commit")
    /\ \E e \in CommitErrors :
          /\ cmErr' = e
          /\ tret' = PkgCommitResult(e)
    /\ tpc' = "deferred"
    /\ UNCHANGED <<helper, tx, fnErr, rbErr, logs>>
    /\ UNCHANGED <<connvars, hvars, nvars, rvars>>

\* variant: the deferred block is keyed on the error being returned
DeferRollsBack_OnAnyError == tret.kind \notin {"nil", "panic"}

\* the deferred block: if fnErr != nil
DeferRollsBack == fnErr # NilErr

\* the deferred block runs, then the call returns or the panic goes on
PkgDeferred ==
    /\ helper = "pkg"
    /\ tpc = "deferred"
    /\ IF DeferRollsBack
       THEN \E rb \in RollbackErrors : HandleTransactionRollback(tx, rb)
       ELSE UNCHANGED <<txlog, logs, rbErr>>
    /\ tpc' = "idle"
    /\ UNCHANGED <<helper, tx, fnErr, cmErr, tret>>
    /\ UNCHANGED <<connvars, hvars, nvars, rvars>>

(***************************************************************************)
(* Connection.WithTransaction, the method (monitoring.go)                  *)
(***************************************************************************)
MethodBegin ==
    /\ TxEnter("method")
    /\ logs' = <<>>
    /\ IF PoolIsNil(pool)
       THEN /\ txlog' = <<>>
            /\ tx' = "nil"
            /\ tret' = [NoTxRet EXCEPT !.kind = "notConnected"]
            /\ tpc' = "idle"
       ELSE \E e \in BeginErrors :
               /\ txlog' = <<"begin">>
               /\ tx' = IF e = NilErr THEN "tx" ELSE "nil"
               /\ IF BeginFailed(e)
                  THEN tret' = RetErrorf("begin", e) /\ tpc' = "idle"
                  ELSE tret' = NoTxRet /\ tpc' = "work"
    /\ UNCHANGED <<connvars, hvars, nvars, rvars>>

\* if err := fn(tx): work returns nil, returns an error, or panics
MethodWork ==
    /\ helper = "method"
    /\ tpc = "work"
    /\ txlog' = Append(txlog, "work")
    /\ \/ /\ fnErr' = NilErr
          /\ tpc' = "commit"
          /\ UNCHANGED tret
       \/ \E e \in WorkErrors \ {NilErr} :
             /\ fnErr' = e
             /\ tpc' = "rollback"
             /\ UNCHANGED tret
       \/ /\ \E p \in PanicValues :
                tret' = [NoTxRet EXCEPT !.kind = "panic", !.panic = TRUE, !.pval = p]
          /\ tpc' = "recover"
          /\ UNCHANGED fnErr
    /\ UNCHANGED <<helper, tx, rbErr, cmErr, logs>>
    /\ UNCHANGED <<connvars, hvars, nvars, rvars>>

\* variant: the rollback error is dropped
MethodRollbackResult_Dropped(e, rb) == RetVerbatim(e)

\* if rbErr != nil { return fmt.Errorf("...: %v (original error: %w)", rbErr, err) }
\* return err
MethodRollbackResult(e, rb) ==
    IF rb # NilErr
    THEN [RetErrorf("rollback", e) EXCEPT !.rollback = rb]
    ELSE RetVerbatim(e)

MethodRollback ==
    /\ helper = "method"
    /\ tpc = "rollback"
    /\ txlog' = Append(txlog, "rollback")
    /\ \E rb \in RollbackErrors :
          /\ rbErr' = rb
          /\ tret' = MethodRollbackResult(fnErr, rb)
    /\ tpc' = "idle"
    /\ UNCHANGED <<helper, tx, fnErr, cmErr, logs>>
    /\ UNCHANGED <<connvars, hvars, nvars, rvars>>

\* if err := tx.Commit(ctx); err != nil { return fmt.Errorf("...: %w", err) }
MethodCommit ==
    /\ helper = "method"
    /\ tpc = "commit"
    /\ txlog' = Append(txlog, "commit")
    /\ \E e \in CommitErrors :
          /\ cmErr' = e
          /\ tret' = IF e # NilErr THEN RetErrorf("commit", e) ELSE RetNil
    /\ tpc' = "idle"
    /\ UNCHANGED <<helper, tx, fnErr, rbErr, logs>>
    /\ UNCHANGED <<connvars, hvars, nvars, rvars>>

\* the deferred recover: _ = tx.Rollback(ctx); panic(p)
\* variant: the recovered panic is turned into an error
Repanic_Swallowed(r) == RetErrorf("recover", NilErr)

\* panic(p)
Repanic(r) == r

MethodRecover ==
    /\ helper = "method"
    /\ tpc = "recover"
    /\ txlog' = Append(txlog, "rollback")
    /\ \E rb \in RollbackErrors : rbErr' = rb
    /\ tret' = Repanic(tret)
    /\ tpc' = "idle"
    /\ UNCHANGED <<helper, tx, fnErr, cmErr, logs>>
    /\ UNCHANGED <<connvars, hvars, nvars, rvars>>

(***************************************************************************)
(* The helpers run on a Manager that never connected, or on one whose      *)
(* Connect stored handle 1 at its first attempt.                           *)
(***************************************************************************)
InitTx ==
    /\ cfg = [MaxConns |-> I64(0, 10), MinConns |-> I64(0, 2), urlOK |-> TRUE,
              RetryTimeout |-> 0]
    /\ opts = DefaultOptions
    /\ \/ /\ pool = NoPool
          /\ hstate = [h \in HandleIds |-> "free"]
          /\ pinged = {}
          /\ created = {}
          /\ calls = 0
          /\ attempt = 0
          /\ op = "none"
          /\ ret = NoRet
       \/ /\ pool = 1
          /\ hstate = [h \in HandleIds |-> IF h = 1 THEN "open" ELSE "free"]
          /\ pinged = {1}
          /\ created = {1}
          /\ calls = 1
          /\ attempt = 1
          /\ op = "Connect"
          /\ ret = [NoRet EXCEPT !.op = "Connect", !.kind = "nil", !.attempts = 1]
    /\ pc = "idle"
    /\ ctxDone = FALSE
    /\ now = 0
    /\ deadline = DefaultRetryTimeout
    /\ cur = NoPool
    /\ err = "nil"
    /\ backoff = 0
    /\ lastFail = "nil"
    /\ touched = NoPool
    /\ closeRun = 0
    /\ TxIdle
    /\ HIdle
    /\ NIdle
    /\ RIdle

NextTx ==
    \/ HandleRollbackCall
    \/ RollbackTransactionCall
    \/ PkgBegin
    \/ PkgWork
    \/ PkgCommit
    \/ PkgDeferred
    \/ MethodBegin
    \/ MethodWork
    \/ MethodRollback
    \/ MethodCommit
    \/ MethodRecover

SpecTx == InitTx /\ [][NextTx]_vars

(***************************************************************************)
(* Health (connection.go)                                                  *)
(***************************************************************************)
UnitsPerSecond == 2    \* clock units of WaitForReady in one second
MaxHealthDur == 3      \* longest a liveness query takes, in clock units
MaxWaitTimeout == 6    \* largest timeout given to WaitForReady, in clock units

\* what QueryRow("SELECT 1").Scan(&result) can give: an error, or a value
QueryOutcomes(p, hs, canceled) ==
    IF hs[p] = "closed" \/ canceled
    THEN {[err |-> TRUE, result |-> 0]}
    ELSE {[err |-> TRUE, result |-> 0]}
            \cup {[err |-> FALSE, result |-> v] : v \in {0, 1, 2}}

\* what Health returns when the query gives q
HealthResult(p, q) ==
    IF PoolIsNil(p) THEN "notConnected"
    ELSE IF q.err THEN "healthCheckFailed"
    ELSE IF q.result # 1 THEN "unexpectedResult"
    ELSE "nil"

\* the query as the history records it
Probed(p, q) ==
    IF PoolIsNil(p) THEN NoProbe
    ELSE [issued |-> TRUE, err |-> q.err, result |-> q.result]

\* the locals of WaitForReady when it is not running
WaitIdle ==
    /\ wnow' = 0
    /\ wdeadline' = 0
    /\ nextTick' = 0
    /\ tickReady' = FALSE
    /\ wctx' = FALSE
    /\ polls' = 0
    /\ pollAt' = 0
    /\ gap' = NoGap
    /\ stale' = FALSE

HealthProbeCall ==
    /\ hpc = "idle"
    /\ hop' = "Health"
    /\ \E q \in (IF PoolIsNil(pool) THEN {[err |-> FALSE, result |-> 0]}
                 ELSE QueryOutcomes(pool, hstate, FALSE)) :
          /\ probe' = Probed(pool, q)
          /\ hret' = [NoHRet EXCEPT !.kind = HealthResult(pool, q)]
    /\ stats' = NoStats
    /\ WaitIdle
    /\ UNCHANGED hpc
    /\ UNCHANGED <<connvars, txvars, nvars, rvars>>

(***************************************************************************)
(* CheckConnections (health.go) and AverageAcquireTime (monitoring.go)     *)
(***************************************************************************)
\* what pool.Stat() can report; a closed pool has no connections left
StatChoices(p, hs) ==
    {st \in [acquired : {0, 5, 9, 10}, idle : {0, 2, 9, 10, 90, 91},
             max : {10, 100}, count : {0, 3, 4}, duration : {0, 7, 8}] :
        /\ st.acquired + st.idle <= st.max
        /\ st.count = 0 => st.duration = 0
        /\ hs[p] = "closed" => (st.acquired = 0 /\ st.idle = 0)}

\* stats.AcquiredConns() >= stats.MaxConns()
Exhausted(st) == st.acquired >= st.max

\* float64(idle) / float64(max) > 0.9; max is positive here, and for int32
\* counts the rounded quotient is above the rounded 0.9 exactly when
\* 10 * idle > 9 * max
IdleRatioHigh(st) == 10 * st.idle > 9 * st.max

CheckResult(st) ==
    IF Exhausted(st) THEN "exhausted"
    ELSE IF IdleRatioHigh(st) THEN "highIdle"
    ELSE "nil"

CheckConnectionsProbeCall ==
    /\ hpc = "idle"
    /\ hop' = "CheckConnections"
    /\ IF PoolIsNil(pool)
       THEN /\ stats' = NoStats
            /\ hret' = [NoHRet EXCEPT !.kind = "notConnected"]
       ELSE \E st \in StatChoices(pool, hstate) :
               /\ st.count = 0
               /\ stats' = st
               /\ hret' = [NoHRet EXCEPT !.kind = CheckResult(st)]
    /\ probe' = NoProbe
    /\ WaitIdle
    /\ UNCHANGED hpc
    /\ UNCHANGED <<connvars, txvars, nvars, rvars>>

\* int64(stats.AcquireDuration()) / stats.AcquireCount(), zero for no count
Average(st) ==
    IF st.count = 0 THEN 0
    ELSE st.duration \div st.count

AverageAcquireTimeCall ==
    /\ hpc = "idle"
    /\ hop' = "AverageAcquireTime"
    /\ IF PoolIsNil(pool)
       THEN /\ stats' = NoStats
            /\ hret' = [NoHRet EXCEPT !.kind = "duration"]
       ELSE \E st \in StatChoices(pool, hstate) :
               /\ st.acquired = 0 /\ st.idle = 0 /\ st.max = 10
               /\ stats' = st
               /\ hret' = [NoHRet EXCEPT !.kind = "duration", !.value = Average(st)]
    /\ probe' = NoProbe
    /\ WaitIdle
    /\ UNCHANGED hpc
    /\ UNCHANGED <<connvars, txvars, nvars, rvars>>

(***************************************************************************)
(* DetailedHealth (health.go)                                              *)
(***************************************************************************)
\* the HealthStatus filled in from the pool's counts and from what Health gave
StatusOf(st, r) ==
    [NoHRet EXCEPT !.kind = "status",
                   !.healthy = (r = "nil"),
                   !.message = IF r = "nil" THEN "database is healthy"
                               ELSE "health check failed",
                   !.conns = st.acquired,
                   !.idle = st.idle,
                   !.max = st.max]

DetailedHealthCall ==
    /\ hpc = "idle"
    /\ hop' = "DetailedHealth"
    /\ IF PoolIsNil(pool)
       THEN /\ stats' = NoStats
            /\ probe' = NoProbe
            /\ hret' = [NoHRet EXCEPT !.kind = "status",
                                      !.message = "database pool not initialized"]
       ELSE \E st \in StatChoices(pool, hstate),
               q \in QueryOutcomes(pool, hstate, FALSE) :
               /\ st.count = 0
               /\ stats' = st
               /\ probe' = Probed(pool, q)
               /\ hret' = StatusOf(st, HealthResult(pool, q))
    /\ WaitIdle
    /\ UNCHANGED hpc
    /\ UNCHANGED <<connvars, txvars, nvars, rvars>>

(***************************************************************************)
(* WaitForReady (health.go)                                                *)
(***************************************************************************)
\* time.NewTicker(1 * time.Second)
PollInterval == 1 * UnitsPerSecond

WaitTimeouts == 1..MaxWaitTimeout

\* how long a Health call can take: at most the health timeout
HealthDurations ==
    0..(IF opts.healthTimeout * UnitsPerSecond < MaxHealthDur
        THEN opts.healthTimeout * UnitsPerSecond
        ELSE MaxHealthDur)

\* deadline := time.Now().Add(timeout); ticker := time.NewTicker(...)
WaitForReadyCall ==
    /\ hpc = "idle"
    /\ hop' = "WaitForReady"
    /\ hpc' = "select"
    /\ \E t \in WaitTimeouts, c \in BOOLEAN :
          /\ wdeadline' = t
          /\ wctx' = c
    /\ wnow' = 0
    /\ nextTick' = PollInterval
    /\ tickReady' = FALSE
    /\ polls' = 0
    /\ pollAt' = 0
    /\ gap' = NoGap
    /\ stale' = FALSE
    /\ hret' = NoHRet
    /\ probe' = NoProbe
    /\ stats' = NoStats
    /\ UNCHANGED <<connvars, txvars, nvars, rvars>>

\* variant: the select has no case for the context
CtxDone_Ignored(c) == FALSE

\* case <-ctx.Done() is ready
CtxDone(c) == c

\* case <-ctx.Done(): return ctx.Err()
SelectDone ==
    /\ hpc = "select"
    /\ CtxDone(wctx)
    /\ hret' = [NoHRet EXCEPT !.kind = "canceled"]
    /\ hpc' = "idle"
    /\ UNCHANGED <<hop, probe, stats, wnow, wdeadline, nextTick, tickReady,
                   wctx, polls, pollAt, gap, stale>>
    /\ UNCHANGED <<connvars, txvars, nvars, rvars>>

\* case <-ticker.C, with a tick already in the channel
SelectTick ==
    /\ hpc = "select"
    /\ tickReady
    /\ tickReady' = FALSE
    /\ hpc' = "tick"
    /\ UNCHANGED <<hop, hret, probe, stats, wnow, wdeadline, nextTick, wctx,
                   polls, pollAt, gap, stale>>
    /\ UNCHANGED <<connvars, txvars, nvars, rvars>>

\* the select blocks until the ticker fires: that tick is received at once
WaitTick ==
    /\ hpc = "select"
    /\ ~CtxDone(wctx)
    /\ ~tickReady
    /\ wnow' = nextTick
    /\ nextTick' = nextTick + PollInterval
    /\ hpc' = "tick"
    /\ UNCHANGED <<hop, hret, probe, stats, wdeadline, tickReady, wctx, polls,
                   pollAt, gap, stale>>
    /\ UNCHANGED <<connvars, txvars, nvars, rvars>>

\* the select blocks until the context is canceled, before the ticker fires
WaitCancel ==
    /\ hpc = "select"
    /\ ~wctx
    /\ ~tickReady
    /\ \E t \in wnow..nextTick : wnow' = t
    /\ wctx' = TRUE
    /\ IF CtxDone(TRUE)
       THEN hret' = [NoHRet EXCEPT !.kind = "canceled"] /\ hpc' = "idle"
       ELSE UNCHANGED <<hret, hpc>>
    /\ UNCHANGED <<hop, probe, stats, wdeadline, nextTick, tickReady, polls,
                   pollAt, gap, stale>>
    /\ UNCHANGED <<connvars, txvars, nvars, rvars>>

\* the context is canceled while WaitForReady is not in its select
CancelWait ==
    /\ hpc \in {"tick", "health"}
    /\ ~wctx
    /\ wctx' = TRUE
    /\ UNCHANGED <<hop, hpc, hret, probe, stats, wnow, wdeadline, nextTick,
                   tickReady, polls, pollAt, gap, stale>>
    /\ UNCHANGED <<connvars, txvars, nvars, rvars>>

\* variant: one more interval is granted after the deadline
After_OneLate(t, d) == IF t > d + PollInterval THEN {TRUE} ELSE {FALSE}

\* time.Now().After(deadline): the clock reading t stands for an instant at or
\* after t, so a reading equal to the deadline can fall on either side
After(t, d) == IF t > d THEN {TRUE} ELSE IF t = d THEN {TRUE, FALSE} ELSE {FALSE}

\* the smallest gap between two polls in a row, with one more poll at time t
GapWith(t) ==
    IF polls = 0 THEN NoGap
    ELSE IF gap = NoGap \/ t - pollAt < gap THEN t - pollAt
    ELSE gap

\* a tick was received: the deadline check, then Health is called
TickStep ==
    /\ hpc = "tick"
    /\ \E late \in After(wnow, wdeadline) :
          IF late
          THEN /\ hret' = [NoHRet EXCEPT !.kind = "timeout"]
               /\ hpc' = "idle"
               /\ UNCHANGED <<polls, pollAt, gap, stale>>
          ELSE /\ polls' = polls + 1
               /\ pollAt' = wnow
               /\ gap' = GapWith(wnow)
               /\ stale' = wctx
               /\ hpc' = "health"
               /\ UNCHANGED hret
    /\ UNCHANGED <<hop, probe, stats, wnow, wdeadline, nextTick, tickReady, wctx>>
    /\ UNCHANGED <<connvars, txvars, nvars, rvars>>

\* the first tick that has not fired by time t (fired: the tick at t itself has)
TickAfter(t, fired) ==
    LET bound == IF fired THEN t ELSE t - 1
    IN  IF nextTick <= bound
        THEN nextTick + PollInterval * ((bound - nextTick) \div PollInterval + 1)
        ELSE nextTick

\* variant: success is returned whatever Health returned
HealthOK_Always(r) == TRUE

\* if err := db.Health(ctx); err == nil
HealthOK(r) == r = "nil"

\* Health returns after d: the ticks that fired meanwhile leave one tick in the
\* channel; a Health call on a canceled context fails at once
HealthStep ==
    /\ hpc = "health"
    /\ \E d \in (IF stale \/ PoolIsNil(pool) THEN {0} ELSE HealthDurations),
          q \in (IF PoolIsNil(pool) THEN {[err |-> FALSE, result |-> 0]}
                 ELSE QueryOutcomes(pool, hstate, stale)),
          fired \in BOOLEAN :
          /\ wnow' = wnow + d
          /\ nextTick' = TickAfter(wnow + d, fired)
          /\ tickReady' = (TickAfter(wnow + d, fired) # nextTick)
          /\ probe' = Probed(pool, q)
          /\ IF HealthOK(HealthResult(pool, q))
             THEN hret' = [NoHRet EXCEPT !.kind = "nil"] /\ hpc' = "idle"
             ELSE hret' = NoHRet /\ hpc' = "select"
    /\ UNCHANGED <<hop, stats, wdeadline, wctx, polls, pollAt, gap, stale>>
    /\ UNCHANGED <<connvars, txvars, nvars, rvars>>

(***************************************************************************)
(* The health and monitoring operations run on a Manager that never        *)
(* connected, on one whose Connect stored handle 1 at its first attempt,   *)
(* or on that one after Close.                                             *)
(***************************************************************************)
InitH ==
    /\ cfg = [MaxConns |-> I64(0, 10), MinConns |-> I64(0, 2), urlOK |-> TRUE,
              RetryTimeout |-> 0]
    /\ opts = DefaultOptions
    /\ \/ /\ pool = NoPool
          /\ hstate = [h \in HandleIds |-> "free"]
          /\ pinged = {}
          /\ created = {}
          /\ calls = 0
          /\ attempt = 0
          /\ deadline = 0
          /\ op = "none"
          /\ ret = NoRet
          /\ touched = NoPool
          /\ closeRun = 0
       \/ /\ pool = 1
          /\ hstate = [h \in HandleIds |-> IF h = 1 THEN "open" ELSE "free"]
          /\ pinged = {1}
          /\ created = {1}
          /\ calls = 1
          /\ attempt = 1
          /\ deadline = DefaultRetryTimeout
          /\ op = "Connect"
          /\ ret = [NoRet EXCEPT !.op = "Connect", !.kind = "nil", !.attempts = 1]
          /\ touched = NoPool
          /\ closeRun = 0
       \/ /\ pool = 1
          /\ hstate = [h \in HandleIds |-> IF h = 1 THEN "closed" ELSE "free"]
          /\ pinged = {1}
          /\ created = {}
          /\ calls = 1
          /\ attempt = 0
          /\ deadline = 0
          /\ op = "none"
          /\ ret = [NoRet EXCEPT !.op = "Close"]
          /\ touched = 1
          /\ closeRun = 1
    /\ pc = "idle"
    /\ ctxDone = FALSE
    /\ now = 0
    /\ cur = NoPool
    /\ err = "nil"
    /\ backoff = 0
    /\ lastFail = "nil"
    /\ TxIdle
    /\ HIdle
    /\ NIdle
    /\ RIdle

NextH ==
    \/ HealthProbeCall
    \/ CheckConnectionsProbeCall
    \/ AverageAcquireTimeCall
    \/ DetailedHealthCall
    \/ WaitForReadyCall
    \/ SelectDone
    \/ SelectTick
    \/ WaitTick
    \/ WaitCancel
    \/ CancelWait
    \/ TickStep
    \/ HealthStep

SpecH == InitH /\ [][NextH]_vars

\* the steps WaitForReady takes by itself, and the ticker firing
WaitForReadyRuns == SelectDone \/ SelectTick \/ WaitTick \/ TickStep \/ HealthStep

\* a running WaitForReady is scheduled, its Health calls return and the ticker
\* fires
SpecHLive == SpecH /\ WF_vars(WaitForReadyRuns)


(***************************************************************************)
(* NewConnection with a non-nil config: no pool, the options applied       *)
(***************************************************************************)
Init ==
    /\ cfg \in Configs
    /\ opts \in OptionSets
    /\ pool = NoPool
    /\ hstate = [h \in HandleIds |-> "free"]
    /\ pc = "idle"
    /\ op = "none"
    /\ ctxDone = FALSE
    /\ now = 0
    /\ deadline = 0
    /\ attempt = 0
    /\ cur = NoPool
    /\ err = "nil"
    /\ backoff = 0
    /\ calls = 0
    /\ ret = NoRet
    /\ pinged = {}
    /\ created = {}
    /\ lastFail = "nil"
    /\ touched = NoPool
    /\ closeRun = 0
    /\ TxIdle
    /\ HIdle
    /\ NIdle
    /\ RIdle

Next ==
    \/ ConnectCall
    \/ CloseCall
    \/ ResetPoolCall
    \/ AttemptCreate
    \/ LoopExit
    \/ AttemptPing
    \/ BackoffStep
    \/ SleepDone
    \/ CancelCtx
    \/ HealthCall
    \/ ExecCall
    \/ QueryCall
    \/ QueryRowCall
    \/ BeginCall
    \/ BeginTxCall
    \/ AcquireCall
    \/ CopyFromCall
    \/ SendBatchCall
    \/ MethodWithTransactionCall
    \/ CheckConnectionsCall
    \/ StatsCall
    \/ PoolCall
    \/ IsHealthyCall
    \/ StatusCall
    \/ GetMetricsCall

Spec == Init /\ [][Next]_vars

TypeOK ==
    /\ pool \in HandleIds \cup {NoPool}
    /\ cur \in HandleIds \cup {NoPool}
    /\ pc \in {"idle", "loop", "ping", "backoff", "sleep"}
    /\ err \in {"nil", "createErr", "pingErr"}

(***************************************************************************)
(* NewConnection and the functional options (connection.go)                *)
(***************************************************************************)
\* an Option: nil, or the closure one of the three constructors returned
NilOption == [kind |-> "nil", logger |-> "none", timeout |-> 0]

LoggerOption(l) == [kind |-> "logger", logger |-> l, timeout |-> 0]

HealthOption(d) == [kind |-> "health", logger |-> "none", timeout |-> d]

RetryOption(d) == [kind |-> "retry", logger |-> "none", timeout |-> d]

Options ==
    {NilOption, LoggerOption("custom")}
        \cup {HealthOption(d) : d \in {1, 7}}
        \cup {RetryOption(d) : d \in {2, 60}}

OptionSeqs == UNION {[1..n -> Options] : n \in 0..MaxOptions}

\* WithLogger: the closure's body is a comment, it assigns nothing
WithLogger(o, l) == o

\* opt(&connOpts), for an opt that is not nil
ApplyOption(opt, o) ==
    CASE opt.kind = "nil" -> o
      [] opt.kind = "logger" -> WithLogger(o, opt.logger)
      [] opt.kind = "health" -> WithHealthTimeout(o, opt.timeout)
      [] opt.kind = "retry" -> WithRetryTimeout(o, opt.timeout)

\* for _, opt := range opts { if opt != nil { opt(&connOpts) } }
RECURSIVE ApplyAll(_, _)
ApplyAll(os, o) ==
    IF os = <<>> THEN o ELSE ApplyAll(Tail(os), ApplyOption(Head(os), o))

\* var logger *slog.Logger is assigned nowhere in the loop, so logger == nil
\* holds after it and slog.Default() is taken
LoggerOf(os) == "default"

NewConnection(c, os) ==
    IF c = "nil"
    THEN [conn |-> NoManager, err |-> "validation"]
    ELSE [conn |-> [made |-> TRUE, pool |-> NoPool, cfg |-> c,
                    logger |-> LoggerOf(os),
                    opts |-> ApplyAll(os, DefaultOptions)],
          err |-> "nil"]

NewConnectionCall ==
    /\ \E c \in {"nil", "cfg"}, os \in OptionSeqs :
          /\ nargs' = [cfg |-> c, opts |-> os]
          /\ conn' = NewConnection(c, os).conn
          /\ nerr' = NewConnection(c, os).err
    /\ sink' = [l \in Loggers |-> {}]
    /\ UNCHANGED <<connvars, txvars, hvars, rvars>>

\* a diagnostic event of the Manager goes to c.logger
LogEvent(e) ==
    /\ conn.made
    /\ sink' = [sink EXCEPT ![conn.logger] = @ \cup {e}]
    /\ UNCHANGED <<nargs, conn, nerr>>
    /\ UNCHANGED <<connvars, txvars, hvars, rvars>>

\* Connect: c.logger.Info("database connection established", ...)
LogEstablished == LogEvent("database connection established")

\* Connect: c.logger.Warn("connection attempt failed", ...)
LogAttemptFailed == LogEvent("connection attempt failed")

\* Close: c.logger.Info("database connection closed")
LogClosed == LogEvent("database connection closed")

\* nothing has been constructed and the provider has seen no call
InitNew ==
    /\ cfg = [MaxConns |-> I64(0, 10), MinConns |-> I64(0, 2), urlOK |-> TRUE,
              RetryTimeout |-> 0]
    /\ opts = DefaultOptions
    /\ pool = NoPool
    /\ hstate = [h \in HandleIds |-> "free"]
    /\ pinged = {}
    /\ created = {}
    /\ calls = 0
    /\ attempt = 0
    /\ op = "none"
    /\ ret = NoRet
    /\ pc = "idle"
    /\ ctxDone = FALSE
    /\ now = 0
    /\ deadline = 0
    /\ cur = NoPool
    /\ err = "nil"
    /\ backoff = 0
    /\ lastFail = "nil"
    /\ touched = NoPool
    /\ closeRun = 0
    /\ TxIdle
    /\ HIdle
    /\ NIdle
    /\ RIdle

NextNew ==
    \/ NewConnectionCall
    \/ LogEstablished
    \/ LogAttemptFailed
    \/ LogClosed

SpecNew == InitNew /\ [][NextNew]_vars

(***************************************************************************)
(* ConnectionWrapper.Release and Connection.WithConnection (monitoring.go) *)
(***************************************************************************)
\* db.Acquire returned a wrapper around a pooled connection
AcquireWrapper ==
    /\ origin = "none"
    /\ origin' = "acquire"
    /\ wconn' = TRUE
    /\ UNCHANGED <<closed, mu, rpc, rcalls, released, wpc, fnCalls, wret>>
    /\ UNCHANGED <<connvars, txvars, hvars, nvars>>

\* a caller declared a ConnectionWrapper of its own: conn is nil
ZeroWrapper ==
    /\ origin = "none"
    /\ origin' = "zero"
    /\ wconn' = FALSE
    /\ UNCHANGED <<closed, mu, rpc, rcalls, released, wpc, fnCalls, wret>>
    /\ UNCHANGED <<connvars, txvars, hvars, nvars>>

\* a caller enters Release
ReleaseCall(p) ==
    /\ origin \in {"acquire", "zero"}
    /\ rpc[p] = "idle"
    /\ rcalls < MaxReleases
    /\ rcalls' = rcalls + 1
    /\ rpc' = [rpc EXCEPT ![p] = "lock"]
    /\ UNCHANGED <<origin, wconn, closed, mu, released, wpc, fnCalls, wret>>
    /\ UNCHANGED <<connvars, txvars, hvars, nvars>>

\* cw.mu.Lock()
ReleaseLock(p) ==
    /\ rpc[p] = "lock"
    /\ mu = 0
    /\ mu' = p + 1
    /\ rpc' = [rpc EXCEPT ![p] = "check"]
    /\ UNCHANGED <<origin, wconn, closed, rcalls, released, wpc, fnCalls, wret>>
    /\ UNCHANGED <<connvars, txvars, hvars, nvars>>

\* variant: the closed flag is not consulted
ShouldRelease_Unchecked(c, held) == held

\* if !cw.closed && cw.conn != nil
ShouldRelease(c, held) == ~c /\ held

ReleaseCheck(p) ==
    /\ rpc[p] = "check"
    /\ rpc' = [rpc EXCEPT ![p] = IF ShouldRelease(closed, wconn)
                                  THEN "release" ELSE "unlock"]
    /\ UNCHANGED <<origin, wconn, closed, mu, rcalls, released, wpc, fnCalls, wret>>
    /\ UNCHANGED <<connvars, txvars, hvars, nvars>>

\* cw.conn.Release()
ReleaseConn(p) ==
    /\ rpc[p] = "release"
    /\ released' = released + 1
    /\ rpc' = [rpc EXCEPT ![p] = "mark"]
    /\ UNCHANGED <<origin, wconn, closed, mu, rcalls, wpc, fnCalls, wret>>
    /\ UNCHANGED <<connvars, txvars, hvars, nvars>>

\* cw.closed = true
ReleaseMark(p) ==
    /\ rpc[p] = "mark"
    /\ closed' = TRUE
    /\ rpc' = [rpc EXCEPT ![p] = "unlock"]
    /\ UNCHANGED <<origin, wconn, mu, rcalls, released, wpc, fnCalls, wret>>
    /\ UNCHANGED <<connvars, txvars, hvars, nvars>>

\* the deferred cw.mu.Unlock(); the deferred Release of WithConnection ends
\* WithConnection with it
ReleaseUnlock(p) ==
    /\ rpc[p] = "unlock"
    /\ mu' = 0
    /\ rpc' = [rpc EXCEPT ![p] = "idle"]
    /\ wpc' = IF p = WithCaller THEN "done" ELSE wpc
    /\ UNCHANGED <<origin, wconn, closed, rcalls, released, fnCalls, wret>>
    /\ UNCHANGED <<connvars, txvars, hvars, nvars>>

\* what db.Acquire answers WithConnection
AcquireOutcomes == {"ok", "database pool not initialized", "failed to acquire connection"}

\* WithConnection: conn, err := db.Acquire(ctx); if err != nil { return err }
WithConnectionCall ==
    /\ origin = "none"
    /\ wpc = "idle"
    /\ \E a \in AcquireOutcomes :
          IF a = "ok"
          THEN /\ origin' = "with"
               /\ wconn' = TRUE
               /\ wpc' = "fn"
               /\ wret' = wret
          ELSE /\ origin' = "failed"
               /\ wconn' = wconn
               /\ wpc' = "done"
               /\ wret' = a
    /\ UNCHANGED <<closed, mu, rpc, rcalls, released, fnCalls>>
    /\ UNCHANGED <<connvars, txvars, hvars, nvars>>

\* what fn can do: return nil, return an error, panic
FnOutcomes == {"nil", "error", "panic"}

\* return fn(conn.Conn())
WithConnectionFn ==
    /\ wpc = "fn"
    /\ fnCalls' = fnCalls + 1
    /\ \E r \in FnOutcomes : wret' = r
    /\ wpc' = "deferred"
    /\ UNCHANGED <<origin, wconn, closed, mu, rpc, rcalls, released>>
    /\ UNCHANGED <<connvars, txvars, hvars, nvars>>

\* defer conn.Release(): runs when fn has returned or panicked
WithConnectionDeferred ==
    /\ wpc = "deferred"
    /\ wpc' = "releasing"
    /\ rcalls' = rcalls + 1
    /\ rpc' = [rpc EXCEPT ![WithCaller] = "lock"]
    /\ UNCHANGED <<origin, wconn, closed, mu, released, fnCalls, wret>>
    /\ UNCHANGED <<connvars, txvars, hvars, nvars>>

NextRel ==
    \/ AcquireWrapper
    \/ ZeroWrapper
    \/ WithConnectionCall
    \/ WithConnectionFn
    \/ WithConnectionDeferred
    \/ \E p \in Callers : ReleaseCall(p)
    \/ \E p \in Goroutines :
          \/ ReleaseLock(p)
          \/ ReleaseCheck(p)
          \/ ReleaseConn(p)
          \/ ReleaseMark(p)
          \/ ReleaseUnlock(p)

SpecRel == InitNew /\ [][NextRel]_vars

(***************************************************************************)
(* Properties                                                              *)
(***************************************************************************)
Tolerance == 1         \* the "small tolerance" granted on elapsed time

MinOf(a, b) == IF a <= b THEN a ELSE b

\* v is negative or greater than the signed 32-bit maximum
OutOfInt32(v) == v.hi < 0 \/ v.hi >= 2^15

Returned == pc = "idle" /\ ret.op \in {"Connect", "ResetPool"}

ReturnedError == Returned /\ ret.kind \in {"validation", "timeout"}

\* C1: with MaxConns or MinConns negative or above the int32 maximum, every
\* Connect returns a validation error and touches nothing: no handle is ever
\* created, no attempt is counted, no time is spent in the loop and the
\* Manager holds no pool.
C1_InvalidBoundsNoNetwork ==
    (OutOfInt32(cfg.MaxConns) \/ OutOfInt32(cfg.MinConns)) =>
        /\ pc = "idle"
        /\ pool = NoPool
        /\ \A h \in HandleIds : hstate[h] = "free"
        /\ attempt = 0
        /\ now = 0
        /\ created = {}
        /\ Returned => ret.kind = "validation"

C1_Witness ==
    /\ cfg.urlOK
    /\ cfg.MaxConns = I64(65535, 65535)
    /\ ~OutOfInt32(cfg.MinConns)
    /\ Returned
    /\ ret.kind = "validation"

\* C2: the handle the Manager holds is always one whose ping, right after its
\* creation, succeeded; a created handle that is being pinged or whose ping
\* failed is not the Manager's.
C2_StoredHandleWasPinged ==
    /\ pool # NoPool => pool \in pinged /\ hstate[pool] # "free"
    /\ (cur # NoPool /\ cur \notin pinged) => pool # cur

C2_Witness ==
    /\ Returned
    /\ ret.kind = "nil"
    /\ lastFail = "pingErr"
    /\ pool \in pinged
    /\ hstate[pool] = "open"

\* C3: at the start of every attempt, while backing off or sleeping, and when
\* Connect has returned an error, no handle created by this Connect call is
\* open.
C3_FailedAttemptHandleClosed ==
    (pc \in {"loop", "backoff", "sleep"} \/ ReturnedError) =>
        \A h \in created : hstate[h] # "open"

C3_Witness ==
    /\ pc = "loop"
    /\ attempt >= 2
    /\ lastFail = "pingErr"
    /\ created # {}
    /\ cur # NoPool
    /\ hstate[cur] = "closed"

\* C4: between calls, every open handle is the one the Manager holds (so at
\* most one is open).
C4_OnlyHeldHandleOpen ==
    pc = "idle" => OpenHandles \subseteq {pool}

C6_NeverSleepsPastDeadline ==
    [][/\ (pc = "backoff" /\ now + MinOf(attempt, 10) > deadline) =>
              (pc' # "sleep" /\ pc' # "loop" /\ now' = now /\ attempt' = attempt)
       /\ (pc = "backoff" /\ pc' = "sleep") => now' + backoff' <= deadline'
       /\ (pc = "loop" /\ attempt' = attempt + 1) => now < deadline
      ]_vars

C6_Witness ==
    /\ Returned
    /\ ret.kind = "timeout"
    /\ ret.attempts >= 2
    /\ ret.elapsed < deadline
    /\ ret.elapsed + MinOf(ret.attempts, 10) > deadline

C8_ErrorLeavesNoLiveHandle ==
    /\ ReturnedError => (pool = NoPool \/ hstate[pool] # "open")
    /\ (Returned /\ ret.kind = "nil") =>
           (pool \in created /\ pool \in pinged /\ hstate[pool] = "open")
    /\ (Returned /\ pool \in created) => ret.kind = "nil"

\* C9: once the caller's context is canceled, Connect starts no further
\* attempt and no further backoff sleep.
C9_NoRetryAfterCancel ==
    [][ctxDone =>
          /\ attempt' = attempt
          /\ ~(pc = "backoff" /\ pc' = "sleep")
      ]_vars

\* C10 (as stated): the Timeout error has the error of the last failed
\* attempt as its cause and carries the elapsed time and the attempt count.
C10_TimeoutCarriesElapsed ==
    (Returned /\ ret.kind = "timeout") =>
        /\ ret.cause = lastFail
        /\ ret.duration = ret.elapsed
        /\ ret.attempts = attempt

\* C10 (amended): the Timeout error carries the configured retry timeout and
\* the attempt count; its cause is the error of the last failed attempt, and
\* is nil only when no attempt was made, which needs a retry timeout that is
\* not positive.
C10_TimeoutCarriesCauseAndRetryTimeout ==
    (Returned /\ ret.kind = "timeout") =>
        /\ ret.cause = lastFail
        /\ ret.duration = opts.retryTimeout
        /\ ret.attempts = attempt
        /\ (ret.cause = "nil") = (ret.attempts = 0)
        /\ ret.attempts = 0 => opts.retryTimeout <= 0

C10_Witness ==
    /\ Returned
    /\ ret.kind = "timeout"
    /\ ret.cause = "pingErr"
    /\ ret.attempts >= 2
    /\ ret.duration # ret.elapsed

ErrorOps ==
    {"Health", "Exec", "Query", "QueryRow", "Begin", "BeginTx", "Acquire",
     "CopyFrom", "SendBatch", "WithTransaction", "CheckConnections"}

HandleOps == {"Stats", "Pool"}

\* the Manager holds the handle of a successful Connect that Close has closed
ClosedAfterConnect == pool # NoPool /\ hstate[pool] = "closed"

\* C11: once a successful Connect has been followed by Close, every
\* query-type operation returns the "pool not initialized" error and invokes
\* nothing on the closed pool, and Stats and Pool return nil.
C11_ClosedManagerIsUnconnected ==
    (pc = "idle" /\ ClosedAfterConnect) =>
        /\ ret.op \in ErrorOps => (ret.kind = "notConnected" /\ touched = NoPool)
        /\ ret.op \in HandleOps => (ret.kind = "nilValue" /\ touched = NoPool)

\* C12: Close never fails or panics, whether or not the Manager ever
\* connected, and a Close that follows a Close leaves the Manager (its pool
\* field and the pool's state) as the first one left it.
C12_CloseIdempotent ==
    [][/\ ret'.op = "Close" => ret'.kind = "none"
       /\ (ret.op = "Close" /\ ret'.op = "Close") =>
              (pool' = pool /\ hstate' = hstate /\ cfg' = cfg /\ opts' = opts)
       /\ (ret'.op = "Close" /\ pool = NoPool) =>
              (pool' = NoPool /\ hstate' = hstate /\ touched' = NoPool)
      ]_vars

C12_Witness ==
    /\ ret.op = "Close"
    /\ closeRun >= 2
    /\ pool # NoPool
    /\ hstate[pool] = "closed"

\* C13: on a Manager that never connected, every operation that returns an
\* error returns the "pool not initialized" error, Stats and Pool return nil,
\* no operation is invoked on the Provider and the Manager is left as it was.
C13_NeverConnectedRejects ==
    [][(pc' = "idle" /\ pool = NoPool /\ ret'.op \in ErrorOps \cup HandleOps) =>
          /\ ret'.op \in ErrorOps => ret'.kind = "notConnected"
          /\ ret'.op \in HandleOps => ret'.kind = "nilValue"
          /\ touched' = NoPool
          /\ pool' = NoPool
          /\ hstate' = hstate
          /\ cfg' = cfg
          /\ opts' = opts
      ]_vars

C13_Witness ==
    /\ pool = NoPool
    /\ calls >= 1
    /\ ret.op = "SendBatch"
    /\ ret.kind = "notConnected"
    /\ touched = NoPool

(***************************************************************************)
(* Properties of the transaction helpers                                   *)
(***************************************************************************)
RECURSIVE Count(_, _)
\* how many times x occurs in the sequence q
Count(q, x) ==
    IF q = <<>> THEN 0
    ELSE (IF Head(q) = x THEN 1 ELSE 0) + Count(Tail(q), x)

\* one of the two WithTransaction helpers is running or has run
InHelper == helper \in {"pkg", "method"}

\* the helper has returned, or its panic has gone on to the caller
HelperDone == InHelper /\ tpc = "idle"

\* its Begin succeeded
Begun == tx = "tx"

\* the rollback error has the three words "tx is closed" in a row
SaysTxIsClosed(e) ==
    \E i \in 1..Len(e.msg) :
        /\ i + 2 <= Len(e.msg)
        /\ e.msg[i] = "tx" /\ e.msg[i + 1] = "is" /\ e.msg[i + 2] = "closed"

\* the rollback error has the two words "conn busy" in a row
SaysConnBusy(e) ==
    \E i \in 1..Len(e.msg) :
        i + 1 <= Len(e.msg) /\ e.msg[i] = "conn" /\ e.msg[i + 1] = "busy"

ExpectedRollbackError(e) ==
    e # NilErr /\ (SaysTxIsClosed(e) \/ SaysConnBusy(e) \/ e.chain = "canceled")

UnexpectedRollbackError(e) == e # NilErr /\ ~ExpectedRollbackError(e)

\* C14: in every execution of either WithTransaction helper, Commit and
\* Rollback are never both invoked on the same transaction handle.
C14_NeverCommitAndRollback ==
    InHelper => ~(Count(txlog, "commit") > 0 /\ Count(txlog, "rollback") > 0)

C14_Witness ==
    /\ HelperDone
    /\ helper = "pkg"
    /\ cmErr # NilErr
    /\ txlog = <<"begin", "work", "commit">>

\* C15: once the package-level WithTransaction has begun a transaction, every
\* exit path (work returns nil, returns an error, or panics) invokes exactly
\* one of Commit and Rollback before the call returns or the panic goes on.
C15_PkgAlwaysTerminates ==
    (HelperDone /\ helper = "pkg" /\ Begun) =>
        Count(txlog, "commit") + Count(txlog, "rollback") = 1

\* C16: when work returns a non-nil error, the package-level WithTransaction
\* invokes Rollback exactly once, never Commit, and returns exactly the error
\* work returned, whatever the rollback's outcome.
C16_PkgReturnsWorkErrorVerbatim ==
    (HelperDone /\ helper = "pkg" /\ fnErr # NilErr) =>
        /\ Count(txlog, "rollback") = 1
        /\ Count(txlog, "commit") = 0
        /\ tret.kind = "verbatim"
        /\ tret.cause = fnErr
        /\ tret.rollback = NilErr
        /\ ~tret.panic

C16_Witness ==
    /\ HelperDone
    /\ helper = "pkg"
    /\ fnErr = Err(<<"unique", "violation">>, "none")
    /\ rbErr = Err(<<"connection", "reset">>, "none")
    /\ tret = RetVerbatim(fnErr)

\* C17 as stated: when work fails and the rollback fails with an unexpected
\* error, the error the helper returns reports the rollback failure and the
\* work's error together.
C17_BothReported ==
    (HelperDone /\ fnErr # NilErr /\ UnexpectedRollbackError(rbErr)) =>
        (tret.rollback = rbErr /\ tret.cause = fnErr)

\* C17 amended: when work fails and the rollback fails, Connection.WithTransaction
\* returns one error that carries the rollback error and wraps the work's
\* error, for every rollback error; the package-level WithTransaction returns
\* the work's error alone and logs an unexpected rollback error at error level.
C17_MethodReportsBothPkgLogs ==
    (HelperDone /\ fnErr # NilErr /\ rbErr # NilErr) =>
        /\ helper = "method" =>
              /\ tret.kind = "errorf"
              /\ tret.rollback = rbErr
              /\ tret.cause = fnErr
              /\ logs = <<>>
        /\ helper = "pkg" =>
              /\ tret = RetVerbatim(fnErr)
              /\ UnexpectedRollbackError(rbErr) => logs = <<"ERROR">>

C17_Witness ==
    /\ HelperDone
    /\ helper = "method"
    /\ fnErr # NilErr
    /\ UnexpectedRollbackError(rbErr)
    /\ tret.rollback = rbErr

\* C18: work is invoked exactly once, strictly after Begin succeeds; when work
\* returns nil, Commit is invoked exactly once after work and before the helper
\* returns, and the helper returns nil if that commit succeeds; if Begin fails
\* the helper returns an error and invokes neither work, Commit nor Rollback.
C18_BeginWorkCommitOrder ==
    InHelper =>
        /\ Count(txlog, "work") <= 1
        /\ Count(txlog, "work") = 1 =>
              (Begun /\ Len(txlog) >= 2 /\ txlog[1] = "begin" /\ txlog[2] = "work")
        /\ (HelperDone /\ Begun) => Count(txlog, "work") = 1
        /\ (HelperDone /\ Begun /\ fnErr = NilErr /\ ~tret.panic) =>
              /\ txlog = <<"begin", "work", "commit">>
              /\ cmErr = NilErr => tret = RetNil
        /\ (HelperDone /\ ~Begun) =>
              /\ tret.kind \in {"processing", "errorf", "notConnected"}
              /\ txlog \in {<<>>, <<"begin">>}

C18_Witness ==
    HelperDone /\ txlog = <<"begin", "work", "commit">> /\ tret = RetNil

C20_RollbackClassified ==
    (tpc = "idle" /\ helper \in {"handle", "pkg", "rollbackTx"}
        /\ Count(txlog, "rollback") = 1) =>
        logs = IF rbErr = NilErr THEN <<>>
               ELSE IF ExpectedRollbackError(rbErr) THEN <<"WARN">>
               ELSE <<"ERROR">>

C20_Witness ==
    /\ helper = "handle"
    /\ tpc = "idle"
    /\ rbErr = DeadlineExceeded
    /\ logs = <<"ERROR">>

\* C21: HandleTransactionRollback never returns or propagates an error: with
\* an absent transaction it calls nothing and logs nothing; with a present one
\* it calls Rollback exactly once and swallows whatever Rollback returns.
C21_HandleRollbackSwallows ==
    (helper = "handle" /\ tpc = "idle") =>
        /\ tret = NoTxRet
        /\ tx = "nil" => (txlog = <<>> /\ logs = <<>>)
        /\ tx = "tx" => txlog = <<"rollback">>

C21_Witness ==
    /\ helper = "handle"
    /\ tpc = "idle"
    /\ tx = "tx"
    /\ rbErr = Err(<<"connection", "reset">>, "none")
    /\ tret = NoTxRet

\* C22: RollbackTransaction maps a canceled original error to a Canceled-kind
\* failure, a deadline-exceeded one to a Timeout-kind failure and any other
\* non-nil one to a TransactionFailed-kind failure, three different kinds.
C22_ThreeKinds ==
    (helper = "rollbackTx" /\ tpc = "idle" /\ fnErr # NilErr) =>
        /\ fnErr.chain = "canceled" => tret.kind = "canceled"
        /\ fnErr.chain = "deadline" => tret.kind = "timeout"
        /\ fnErr.chain = "none" => tret.kind = "processing"

\* C23 as stated: RollbackTransaction attempts the rollback exactly once in
\* every case, returns nil exactly when originalErr is nil, and every non-nil
\* result has originalErr as its cause.
C23_AlwaysRollsBackOnce ==
    (helper = "rollbackTx" /\ tpc = "idle") =>
        /\ Count(txlog, "rollback") = 1
        /\ (tret.kind = "nil") <=> (fnErr = NilErr)
        /\ tret.kind # "nil" => tret.cause = fnErr

\* C23 amended: RollbackTransaction attempts the rollback exactly once when a
\* transaction is present and not at all when it is absent; it returns nil
\* exactly when originalErr is nil, every non-nil result has originalErr as
\* its cause, and the rollback's outcome never changes the returned value.
C23_RollsBackPresentTxOnce ==
    (helper = "rollbackTx" /\ tpc = "idle") =>
        /\ Count(txlog, "rollback") = (IF tx = "tx" THEN 1 ELSE 0)
        /\ (tret.kind = "nil") <=> (fnErr = NilErr)
        /\ tret.kind # "nil" =>
              (tret.kind \in {"processing", "timeout"} /\ tret.cause = fnErr)
        /\ tret.rollback = NilErr
        /\ ~tret.panic

C23_Witness ==
    /\ helper = "rollbackTx"
    /\ tpc = "idle"
    /\ tx = "tx"
    /\ fnErr = Err(<<"unique", "violation">>, "none")
    /\ rbErr = Err(<<"connection", "reset">>, "none")
    /\ tret.cause = fnErr

(***************************************************************************)
(* Properties of the health and monitoring operations                      *)
(***************************************************************************)
\* the Manager never connected, or was closed
Unconnected == pool = NoPool \/ hstate[pool] = "closed"

\* the operation has returned
HReturned(name) == hop = name /\ hpc = "idle"

\* the last liveness query completed without error and gave 1
ProbeOne == probe.issued /\ ~probe.err /\ probe.result = 1

\* C24: Health returns nil exactly when the Manager is Connected and the
\* liveness query completes without error and yields 1; on an Unconnected
\* Manager it fails with NotConnected without issuing a query; when the query
\* errors or yields another value it fails with an Unavailable error.
C24_HealthNilIffLive ==
    HReturned("Health") =>
        /\ (hret.kind = "nil") <=> (~Unconnected /\ ProbeOne)
        /\ Unconnected => (hret.kind = "notConnected" /\ ~probe.issued)
        /\ (probe.issued /\ ~ProbeOne) =>
              hret.kind \in {"healthCheckFailed", "unexpectedResult"}

\* C25 as stated: WaitForReady returns success only right after a Health call
\* that succeeded; two Health polls in a row are at least one interval apart
\* and the first poll is no earlier than one interval after the call starts.
C25_PollsOneIntervalApart ==
    hop = "WaitForReady" =>
        /\ (hpc = "idle" /\ hret.kind = "nil") => (polls >= 1 /\ ProbeOne)
        /\ polls >= 1 => pollAt >= PollInterval
        /\ gap # NoGap => gap >= PollInterval

\* C25 amended: WaitForReady returns success only right after a Health call
\* that succeeded; every poll takes one tick of the ticker, so the n-th poll
\* is no earlier than n intervals after the call starts (the first no earlier
\* than one interval), while two polls in a row can be closer than one
\* interval when a tick left in the channel by a slow Health call is taken late.
C25_NthPollAfterNIntervals ==
    hop = "WaitForReady" =>
        /\ (hpc = "idle" /\ hret.kind = "nil") => (polls >= 1 /\ ProbeOne)
        /\ polls >= 1 => pollAt >= polls * PollInterval
        /\ hpc = "tick" => wnow >= (polls + 1) * PollInterval
        /\ gap # NoGap => gap >= 0

C25_Witness ==
    /\ HReturned("WaitForReady")
    /\ hret.kind = "nil"
    /\ polls >= 3
    /\ gap # NoGap
    /\ gap < PollInterval

\* C26: whenever WaitForReady returns success, it does so no later than the
\* supplied timeout after the call started, also when the successful Health
\* call itself takes time.
C26_SuccessByDeadline ==
    (HReturned("WaitForReady") /\ hret.kind = "nil") => wnow <= wdeadline

\* C27: with a target that never becomes healthy and a context that is never
\* canceled, WaitForReady returns a Timeout error, not before the deadline,
\* and issues no poll beyond the deadline.
C27_TimeoutAtDeadline ==
    (hop = "WaitForReady" /\ ~wctx) =>
        /\ polls >= 1 => pollAt <= wdeadline
        /\ (hpc = "idle" /\ hret.kind # "nil") =>
              (hret.kind = "timeout" /\ wnow >= wdeadline)

C27_Witness ==
    /\ HReturned("WaitForReady")
    /\ hret.kind = "timeout"
    /\ ~wctx
    /\ polls >= 2
    /\ ~ProbeOne

\* WaitForReady is blocked in its select: nothing is ready
Blocked == hop = "WaitForReady" /\ hpc = "select" /\ ~wctx /\ ~tickReady

\* C28: when the context is canceled while WaitForReady is waiting in its
\* select, it returns the Canceled error at that moment, without waiting for
\* the timeout; once the context is canceled the call always returns; and it
\* never returns success on a Health call issued after the cancellation.
C28_CancelEndsWait ==
    /\ [][ /\ (Blocked /\ wctx') =>
                (hpc' = "idle" /\ hret'.kind = "canceled" /\ wnow' <= nextTick)
           /\ (hpc' = "idle" /\ hop' = "WaitForReady" /\ hret'.kind = "nil") =>
                ~stale' ]_vars
    /\ [](((hop = "WaitForReady") /\ wctx) => <>(hpc = "idle"))

C28_Witness ==
    /\ HReturned("WaitForReady")
    /\ hret.kind = "canceled"
    /\ polls >= 1
    /\ wnow < wdeadline
    /\ ~stale

\* C29: CheckConnections on a Connected Manager returns ResourceExhausted
\* when acquired >= max, otherwise DegradedCapacity when idle / max is above
\* 0.9, otherwise nil; on an Unconnected Manager it returns NotConnected.
C29_CheckConnectionsThresholds ==
    HReturned("CheckConnections") =>
        /\ Unconnected => hret.kind = "notConnected"
        /\ ~Unconnected =>
              hret.kind = IF stats.acquired >= stats.max THEN "exhausted"
                          ELSE IF 100 * stats.idle > 90 * stats.max THEN "highIdle"
                          ELSE "nil"

\* C30: AverageAcquireTime returns zero when the Manager is Unconnected or the
\* acquire count is zero, and otherwise the cumulative acquire duration
\* divided by the acquire count, rounded down.
C30_AverageAcquireTime ==
    HReturned("AverageAcquireTime") =>
        /\ (Unconnected \/ stats.count = 0) => hret.value = 0
        /\ (~Unconnected /\ stats.count > 0) =>
              /\ hret.value * stats.count <= stats.duration
              /\ stats.duration < (hret.value + 1) * stats.count

\* C37: in Connection.WithTransaction, when work panics after the transaction
\* has begun, Rollback is invoked exactly once, Commit never, and the same
\* panic value goes on to the caller after the rollback.
C37_MethodPanicRollsBackAndRepanics ==
    [][(helper = "method" /\ tpc = "recover") =>
          /\ txlog = <<"begin", "work">>
          /\ txlog' = <<"begin", "work", "rollback">>
          /\ tpc' = "idle"
          /\ tret'.panic
          /\ tret'.kind = "panic"
          /\ tret'.pval = tret.pval
          /\ tret.pval \in PanicValues]_vars

C37_Witness ==
    /\ helper = "method"
    /\ tpc = "idle"
    /\ tret.panic
    /\ tret.pval = "bang"
    /\ txlog = <<"begin", "work", "rollback">>
    /\ rbErr = Err(<<"connection", "reset">>, "none")

\* C39: whenever the configuration passes validation, Connect makes at least
\* one create-and-ping attempt before it returns a Timeout error, whatever the
\* retry timeout, so a Timeout error has a non-nil cause and at least 1 attempt.
C39_TimeoutAfterAnAttempt ==
    (Returned /\ ret.kind = "timeout") =>
        (ret.attempts >= 1 /\ ret.cause # "nil" /\ created # {})

\* C40: on a Connected Manager whose database is healthy throughout, with a
\* context that is never canceled, WaitForReady never reports Timeout for a
\* positive timeout: a Timeout is only reported after a poll that failed.
C40_NoTimeoutWhenHealthy ==
    (HReturned("WaitForReady") /\ wdeadline > 0 /\ ~wctx /\ ~Unconnected
        /\ hret.kind = "timeout") =>
        (polls >= 1 /\ probe.issued /\ ~ProbeOne)

\* C31: DetailedHealth always returns a populated status and never fails: on
\* an Unconnected Manager healthy is false, the counts are zero and no probe
\* is made; on a Connected Manager the counts are the pool's current counts
\* even if the probe fails, and healthy is true exactly when the Health call
\* made inside returned nil, a failure being told in the message.
C31_DetailedHealthStatus ==
    HReturned("DetailedHealth") =>
        /\ hret.kind = "status"
        /\ hret.message # "none"
        /\ Unconnected =>
              /\ ~hret.healthy
              /\ hret.conns = 0 /\ hret.idle = 0 /\ hret.max = 0
              /\ ~probe.issued
        /\ ~Unconnected =>
              /\ hret.conns = stats.acquired
              /\ hret.idle = stats.idle
              /\ hret.max = stats.max
              /\ probe.issued
              /\ hret.healthy <=> ProbeOne
              /\ ~hret.healthy => hret.message = "health check failed"

\* C35: ResetPool closes the held handle before any new pool is created and
\* then runs Connect: on success the Manager holds a newly created, pinged
\* handle and the old one is closed; on failure it returns Connect's error and
\* the Manager does not keep the old closed handle.
C35_ResetPoolReplacesHandle ==
    (ret.op = "ResetPool" \/ op = "ResetPool") =>
        /\ (pc # "idle" /\ pool # NoPool) => hstate[pool] = "closed"
        /\ (pc = "idle" /\ ret.kind = "nil") =>
              /\ pool \in created
              /\ pool \in pinged
              /\ hstate[pool] = "open"
              /\ \A h \in HandleIds \ {pool} : hstate[h] # "open"
        /\ (pc = "idle" /\ ret.kind \in {"validation", "timeout"}) => pool = NoPool

\* the operations that many callers may issue on a connected Manager
ReadOps ==
    {"Health", "IsHealthy", "DetailedHealth", "CheckConnections",
     "GetMetrics", "Stats", "Exec", "Query", "QueryRow", "Begin", "BeginTx",
     "WithTransaction"}

C34_ConfigRetryTimeoutUsed ==
    (op = "Connect" /\ opts = DefaultOptions /\ cfg.RetryTimeout > 0) =>
        /\ pc # "idle" => deadline = cfg.RetryTimeout
        /\ (pc = "idle" /\ ret.kind = "timeout") =>
              /\ ret.duration = cfg.RetryTimeout
              /\ ret.elapsed < cfg.RetryTimeout + MaxBackoff

(***************************************************************************)
(* Properties of NewConnection                                             *)
(***************************************************************************)
\* the positions in os of the options of one kind
OfKind(os, k) == {i \in 1..Len(os) : os[i].kind = k}

\* the largest element of a non-empty set of positions
Last(S) == CHOOSE i \in S : \A j \in S : j <= i

\* the timeout the caller asked for: the value of the last option of the kind,
\* the default when there is none
Asked(os, k, default) ==
    IF OfKind(os, k) = {} THEN default ELSE os[Last(OfKind(os, k))].timeout

\* C32: NewConnection with a config performs no network action and returns an
\* unconnected Manager whose health timeout is 5s and retry timeout 30s unless
\* overridden, each timeout option setting its own field only, in any
\* combination and order; with a nil config it returns a validation error and
\* no Manager.
C32_NewConnectionOptions ==
    nerr # "none" =>
        /\ created = {}
        /\ \A h \in HandleIds : hstate[h] = "free"
        /\ nargs.cfg = "nil" => (nerr = "validation" /\ ~conn.made)
        /\ nargs.cfg # "nil" =>
              /\ nerr = "nil"
              /\ conn.made
              /\ conn.pool = NoPool
              /\ conn.cfg = nargs.cfg
              /\ conn.opts.healthTimeout = Asked(nargs.opts, "health", 5)
              /\ conn.opts.retryTimeout = Asked(nargs.opts, "retry", 30)

C32_Witness ==
    /\ conn.made
    /\ nargs.opts = <<RetryOption(60), HealthOption(7), RetryOption(2)>>
    /\ conn.opts = [healthTimeout |-> 7, retryTimeout |-> 2]

\* C33: when WithLogger(l) is passed with a logger l, the Manager's
\* diagnostic events go to l and not to the process default logger.
C33_LoggerOverrideApplied ==
    (conn.made /\ OfKind(nargs.opts, "logger") # {}) =>
        /\ conn.logger = nargs.opts[Last(OfKind(nargs.opts, "logger"))].logger
        /\ sink["default"] = {}

(***************************************************************************)
(* Properties of ConnectionWrapper.Release and WithConnection              *)
(***************************************************************************)
\* the Release calls that have returned
ReleasesDone == rcalls - Cardinality({p \in Goroutines : rpc[p] # "idle"})

\* C38: however many callers run Release on one wrapper, one after another or
\* at once, the pooled connection goes back to the pool at most once, and
\* exactly once when a Release on a wrapper holding a connection has
\* returned; WithConnection invokes fn only when Acquire succeeded, and
\* releases the connection it acquired exactly once after fn has returned,
\* whether fn succeeded, failed or panicked.
C38_ReleasedOnce ==
    /\ released <= 1
    /\ ~wconn => released = 0
    /\ (wconn /\ ReleasesDone >= 1) => (released = 1 /\ closed)
    /\ wpc = "fn" => (fnCalls = 0 /\ released = 0)
    /\ wpc \in {"deferred", "releasing"} => fnCalls = 1
    /\ (wpc = "done" /\ origin = "failed") =>
          (fnCalls = 0 /\ released = 0 /\ wret \notin FnOutcomes)
    /\ (wpc = "done" /\ origin = "with") =>
          (fnCalls = 1 /\ released = 1 /\ wret \in FnOutcomes)

C38_Witness ==
    /\ origin = "acquire"
    /\ released = 1
    /\ ReleasesDone >= 2
    /\ \E p, q \in Callers : rpc[p] = "lock" /\ rpc[q] = "check"

====
